---- MODULE Spec2Model ----
(***************************************************************************)
(* A model of build_feed.py: the one-shot pipeline main() (fetch, debug    *)
(* snapshot, extract, dedupe, cap, build RSS, write) and the pure helpers  *)
(* it is made of.                                                          *)
(*                                                                         *)
(* Python values are modelled as follows.                                  *)
(*   str        a TLA+ string (Len, \o and SubSeq act on it as on a        *)
(*              sequence of characters); the inputs are ASCII.             *)
(*   JSON value a record tagged by k: Null, Str(s), Num(q, r), Arr(e),     *)
(*              Obj(f). An object keeps its members as a sequence of       *)
(*              <<key, value>> pairs in insertion order, which is the      *)
(*              order dict.values() iterates in.                           *)
(*   int        Num(q, r) is the integer 1000 * q + r with 0 <= r < 1000:  *)
(*              epoch milliseconds do not fit TLC's 32-bit integers.       *)
(*   item dict  a record whose DOMAIN is the set of keys present.          *)
(*   exception  an operator that can raise has a companion <name>_raises.  *)
(***************************************************************************)
EXTENDS Integers, Sequences, FiniteSets, TLC

(***************************************************************************)
(* Settings (build_feed.py, lines 13-21).                                  *)
(***************************************************************************)
SITE_ROOT == "https://www.thepress.co.nz"

SECTION_LINK == "https://www.thepress.co.nz/timaru-herald"

MAX_ITEMS == 40

(***************************************************************************)
(* Python's str methods, as far as the program uses them.                  *)
(***************************************************************************)
UpperLetters == "ABCDEFGHIJKLMNOPQRSTUVWXYZ"

LowerLetters == "abcdefghijklmnopqrstuvwxyz"

Digits == "0123456789"

CharAt(s, i) == SubSeq(s, i, i)

\* c in s, for a single character c
CharIn(c, s) == \E i \in 1..Len(s) : CharAt(s, i) = c

\* c.isupper() for one ASCII character
IsUpper(c) == CharIn(c, UpperLetters)

IsSpace(c) == c \in {" ", "\t", "\n", "\r"}

LowerChar(c) ==
    IF IsUpper(c)
    THEN CharAt(LowerLetters, CHOOSE i \in 1..26 : CharAt(UpperLetters, i) = c)
    ELSE c

RECURSIVE Lower(_)
\* s.lower(), one half of s after the other
Lower(s) ==
    IF Len(s) = 0 THEN ""
    ELSE IF Len(s) = 1 THEN LowerChar(s)
    ELSE Lower(SubSeq(s, 1, Len(s) \div 2))
         \o Lower(SubSeq(s, Len(s) \div 2 + 1, Len(s)))

\* s.startswith(p)
StartsWith(s, p) == Len(p) <= Len(s) /\ SubSeq(s, 1, Len(p)) = p

\* sub in s
Contains(sub, s) ==
    \E i \in 1..(Len(s) - Len(sub) + 1) : SubSeq(s, i, i + Len(sub) - 1) = sub

\* s.find(c) for one character c, 1-based; 0 when c is not in s
Find(s, c) ==
    IF CharIn(c, s)
    THEN CHOOSE i \in 1..Len(s) :
            CharAt(s, i) = c /\ \A j \in 1..(i - 1) : CharAt(s, j) # c
    ELSE 0

\* the positions of s that hold no whitespace
Inked(s) == {i \in 1..Len(s) : ~IsSpace(CharAt(s, i))}

Least(S) == CHOOSE i \in S : \A j \in S : i <= j

Greatest(S) == CHOOSE i \in S : \A j \in S : i >= j

\* s.strip()
Strip(s) ==
    IF Inked(s) = {} THEN "" ELSE SubSeq(s, Least(Inked(s)), Greatest(Inked(s)))

\* s.rstrip("/")
RStripSlash(s) ==
    LET keep == {i \in 1..Len(s) : CharAt(s, i) # "/"} IN
        IF keep = {} THEN "" ELSE SubSeq(s, 1, Greatest(keep))

\* s.split(): the maximal runs of non-whitespace characters, in order
Split(s) ==
    LET ink == Inked(s)
        starts == {i \in ink : i - 1 \notin ink}
        EndOf(i) == Least({j \in ink : j >= i /\ j + 1 \notin ink})
        Nth(n) == CHOOSE i \in starts : Cardinality({j \in starts : j < i}) = n - 1
    IN  [n \in 1..Cardinality(starts) |-> SubSeq(s, Nth(n), EndOf(Nth(n)))]

RECURSIVE JoinSpace(_)
\* " ".join(parts), one half of the parts after the other
JoinSpace(parts) ==
    IF Len(parts) = 0 THEN ""
    ELSE IF Len(parts) = 1 THEN parts[1]
    ELSE JoinSpace(SubSeq(parts, 1, Len(parts) \div 2)) \o " "
         \o JoinSpace(SubSeq(parts, Len(parts) \div 2 + 1, Len(parts)))

\* line 34: " ".join((s or "").split()).strip()
clean(s) == Strip(JoinSpace(Split(s)))

(***************************************************************************)
(* JSON values (the value r.json() returns) and Python's view of them.     *)
(***************************************************************************)
Null == [k |-> "null"]

Str(s) == [k |-> "str", s |-> s]

Num(q, r) == [k |-> "num", q |-> q, r |-> r]

Arr(e) == [k |-> "arr", e |-> e]

Obj(f) == [k |-> "obj", f |-> f]

\* Python's None: what json null parses to and what pick_first returns
None == Null

\* isinstance(v, dict), isinstance(v, list), isinstance(v, str)
IsDict(v) == v.k = "obj"

IsList(v) == v.k = "arr"

IsStr(v) == v.k = "str"

IsNum(v) == v.k = "num"

\* k in d
HasKey(d, key) == \E i \in 1..Len(d.f) : d.f[i][1] = key

\* d[k], for a key of d
Get(d, key) == d.f[CHOOSE i \in 1..Len(d.f) : d.f[i][1] = key][2]

\* d.get(k)
GetOrNone(d, key) == IF HasKey(d, key) THEN Get(d, key) ELSE None

\* list(d.values())
Values(d) == [i \in 1..Len(d.f) |-> d.f[i][2]]

\* bool(v)
Truthy(v) ==
    CASE v.k = "null" -> FALSE
      [] v.k = "str" -> v.s # ""
      [] v.k = "num" -> v.q # 0 \/ v.r # 0
      [] v.k = "arr" -> v.e # <<>>
      [] v.k = "obj" -> v.f # <<>>

\* three decimal digits of r < 1000
Pad3(r) ==
    (IF r < 10 THEN "00" ELSE IF r < 100 THEN "0" ELSE "") \o ToString(r)

RECURSIVE PyStr(_)
RECURSIVE PyRepr(_)
RECURSIVE ReprElems(_)
RECURSIVE ReprMembers(_)
\* str(v); a string is itself, a number its decimal digits, a container its repr
PyStr(v) == IF v.k = "str" THEN v.s ELSE PyRepr(v)

\* repr(v), for strings without quotes or backslashes
PyRepr(v) ==
    CASE v.k = "null" -> "None"
      [] v.k = "str" -> "'" \o v.s \o "'"
      [] v.k = "num" ->
            IF v.q = 0 THEN ToString(v.r) ELSE ToString(v.q) \o Pad3(v.r)
      [] v.k = "arr" -> "[" \o ReprElems(v.e) \o "]"
      [] v.k = "obj" -> "{" \o ReprMembers(v.f) \o "}"

ReprElems(e) ==
    IF e = <<>> THEN ""
    ELSE PyRepr(e[1]) \o (IF Len(e) > 1 THEN ", " ELSE "") \o ReprElems(Tail(e))

ReprMembers(f) ==
    IF f = <<>> THEN ""
    ELSE "'" \o f[1][1] \o "': " \o PyRepr(f[1][2])
         \o (IF Len(f) > 1 THEN ", " ELSE "") \o ReprMembers(Tail(f))

(***************************************************************************)
(* Helpers (build_feed.py, lines 34-85).                                   *)
(***************************************************************************)
\* urllib's scheme_chars
SchemeChars == LowerLetters \o UpperLetters \o Digits \o "+-."

\* urlsplit: the url has a scheme when a ":" follows a run of scheme characters
\* that starts with a letter
HasScheme(url) ==
    LET i == Find(url, ":") IN
        /\ i > 1
        /\ CharIn(LowerChar(CharAt(url, 1)), LowerLetters)
        /\ \A j \in 1..(i - 1) : CharIn(CharAt(url, j), SchemeChars)

\* urlsplit(url).scheme, "" when the url has none
SchemeOf(url) ==
    IF HasScheme(url) THEN Lower(SubSeq(url, 1, Find(url, ":") - 1)) ELSE ""

\* the url after its scheme and colon
AfterScheme(url) ==
    IF HasScheme(url) THEN SubSeq(url, Find(url, ":") + 1, Len(url)) ELSE url

\* the first position from i on that holds one of "/", "?", "#"; Len(s) + 1 if none
NetlocEnd(s, i) ==
    IF \E j \in i..Len(s) : CharAt(s, j) \in {"/", "?", "#"}
    THEN CHOOSE j \in i..Len(s) :
            /\ CharAt(s, j) \in {"/", "?", "#"}
            /\ \A m \in i..(j - 1) : CharAt(s, m) \notin {"/", "?", "#"}
    ELSE Len(s) + 1

\* urlsplit(url).netloc: what follows "//" up to the next "/", "?" or "#"
NetlocOf(url) ==
    LET rest == AfterScheme(url) IN
        IF StartsWith(rest, "//") THEN SubSeq(rest, 3, NetlocEnd(rest, 3) - 1)
        ELSE ""

\* the path, query and fragment, as written
AfterNetloc(url) ==
    LET rest == AfterScheme(url) IN
        IF StartsWith(rest, "//")
        THEN SubSeq(rest, NetlocEnd(rest, 3), Len(rest))
        ELSE rest

\* urlsplit raises ValueError("Invalid IPv6 URL") on an unbalanced bracket
urlsplit_raises(url) ==
    LET n == NetlocOf(url) IN CharIn("[", n) # CharIn("]", n)

\* urljoin(base, url) for the base SITE_ROOT (scheme https, no path), and a url
\* without dot segments, empty path segments or ";" parameters
urljoin(base, url) ==
    IF url = "" THEN base
    ELSE IF SchemeOf(url) \notin {"", "https"} THEN url
    ELSE IF NetlocOf(url) # "" THEN "https://" \o NetlocOf(url) \o AfterNetloc(url)
    ELSE LET rest == AfterNetloc(url) IN
        IF rest = "" THEN base
        ELSE IF CharAt(rest, 1) \in {"/", "?", "#"} THEN base \o rest
        ELSE base \o "/" \o rest

\* lines 37-40, when urljoin raises
abs_url_raises(u) == u # "" /\ Strip(u) # "" /\ urlsplit_raises(Strip(u))

\* lines 37-40
abs_url(u) == IF u = "" THEN "" ELSE urljoin(SITE_ROOT, Strip(u))

RECURSIVE pick_first(_, _)
\* lines 42-46
pick_first(d, keys) ==
    IF keys = <<>> THEN None
    ELSE IF /\ HasKey(d, Head(keys))
            /\ Get(d, Head(keys)) \notin {None, Str(""), Arr(<<>>), Obj(<<>>)}
         THEN Get(d, Head(keys))
         ELSE pick_first(d, Tail(keys))

\* line 61: the parts whose first character is uppercase
Caps(parts) == Cardinality({i \in 1..Len(parts) : IsUpper(CharAt(parts[i], 1))})

\* looks_like_person_name asking for more than 75% capitalised parts
looks_like_person_name_strict(title) ==
    LET t == clean(title)
        parts == Split(t)
    IN  IF Len(t) < 8 \/ Len(t) > 40 THEN FALSE
        ELSE IF ~(2 <= Len(parts) /\ Len(parts) <= 4) THEN FALSE
        ELSE 4 * Caps(parts) > 3 * Len(parts)

\* lines 48-62
looks_like_person_name(title) ==
    LET t == clean(title)
        parts == Split(t)
    IN  IF Len(t) < 8 \/ Len(t) > 40 THEN FALSE
        ELSE IF ~(2 <= Len(parts) /\ Len(parts) <= 4) THEN FALSE
        ELSE 4 * Caps(parts) >= 3 * Len(parts)

\* lines 73-77
BadRoutes ==
    << "/login", "/subscribe", "/account", "/privacy", "/terms", "/contact",
       "/newsletter", "/author", "/authors", "/profile", "/tag", "/tags",
       "/topic", "/topics", "/category", "/categories", "/search" >>

\* looks_like_story comparing with the section link without stripping slashes
looks_like_story_no_rstrip(url) ==
    LET u == Lower(url) IN
        IF url = "" THEN FALSE
        ELSE IF ~Contains("thepress.co.nz", u) THEN FALSE
        ELSE IF \E i \in 1..Len(BadRoutes) : Contains(BadRoutes[i], u) THEN FALSE
        ELSE IF u = Lower(SECTION_LINK) THEN FALSE
        ELSE TRUE

\* lines 64-85
looks_like_story(url) ==
    LET u == Lower(url) IN
        IF url = "" THEN FALSE
        ELSE IF ~Contains("thepress.co.nz", u) THEN FALSE
        ELSE IF \E i \in 1..Len(BadRoutes) : Contains(BadRoutes[i], u) THEN FALSE
        ELSE IF RStripSlash(u) = RStripSlash(Lower(SECTION_LINK)) THEN FALSE
        ELSE TRUE

(***************************************************************************)
(* normalize_pubdate (lines 87-125). An instant is [days, sod]: whole days *)
(* since 1970-01-01 and the second of that day, in UTC.                    *)
(***************************************************************************)
\* value > 2_000_000_000_000 (line 98)
AboveMsThreshold(v) == v.q > 2000000000 \/ (v.q = 2000000000 /\ v.r > 0)

\* datetime.fromtimestamp raises past 9999-12-31T23:59:59, second 253402300799
PastMaxDatetime(v) == v.q > 253402300 \/ (v.q = 253402300 /\ v.r > 799)

\* the instant of second 1000 * q + r; 432000 seconds are 5 days
InstantOfSeconds(v) ==
    LET low == 1000 * (v.q % 432) + v.r IN
        [days |-> 5 * (v.q \div 432) + low \div 86400, sod |-> low % 86400]

\* lines 97-100: the instant of a number, None when fromtimestamp raises
TimestampInstant(v) ==
    IF AboveMsThreshold(v)
    THEN [days |-> v.q \div 86400, sod |-> v.q % 86400]
    ELSE IF PastMaxDatetime(v) THEN None
    ELSE InstantOfSeconds(v)

\* the proleptic Gregorian date of a day number
CivilFromDays(days) ==
    LET z == days + 719468
        era == z \div 146097
        doe == z - era * 146097
        yoe == (doe - doe \div 1460 + doe \div 36524 - doe \div 146096) \div 365
        doy == doe - (365 * yoe + yoe \div 4 - yoe \div 100)
        mp == (5 * doy + 2) \div 153
        m == IF mp < 10 THEN mp + 3 ELSE mp - 9
    IN  [year |-> yoe + era * 400 + (IF m <= 2 THEN 1 ELSE 0),
         month |-> m,
         day |-> doy - (153 * mp + 2) \div 5 + 1]

\* the day number of a proleptic Gregorian date
DaysFromCivil(y, m, d) ==
    LET yy == IF m <= 2 THEN y - 1 ELSE y
        era == yy \div 400
        yoe == yy - era * 400
        doy == (153 * (IF m > 2 THEN m - 3 ELSE m + 9) + 2) \div 5 + d - 1
        doe == yoe * 365 + yoe \div 4 - yoe \div 100 + doy
    IN  era * 146097 + doe - 719468

DayNames == <<"Sun", "Mon", "Tue", "Wed", "Thu", "Fri", "Sat">>

MonthNames ==
    << "Jan", "Feb", "Mar", "Apr", "May", "Jun",
       "Jul", "Aug", "Sep", "Oct", "Nov", "Dec" >>

\* "%02d"
Pad2(n) == (IF n < 10 THEN "0" ELSE "") \o ToString(n)

\* "%04d"
Pad4(n) ==
    (IF n < 10 THEN "000" ELSE IF n < 100 THEN "00" ELSE IF n < 1000 THEN "0" ELSE "")
    \o ToString(n)

\* email.utils.format_datetime of an aware UTC datetime:
\* "%s, %02d %s %04d %02d:%02d:%02d +0000"
format_datetime(t) ==
    LET c == CivilFromDays(t.days) IN
        DayNames[((t.days + 4) % 7) + 1] \o ", " \o Pad2(c.day) \o " "
        \o MonthNames[c.month] \o " " \o Pad4(c.year) \o " "
        \o Pad2(t.sod \div 3600) \o ":" \o Pad2((t.sod \div 60) % 60) \o ":"
        \o Pad2(t.sod % 60) \o " +0000"

IsDigits(s) == s # "" /\ \A i \in 1..Len(s) : CharIn(CharAt(s, i), Digits)

RECURSIVE ToInt(_)
\* int(s) for a string of digits
ToInt(s) ==
    IF s = "" THEN 0
    ELSE 10 * ToInt(SubSeq(s, 1, Len(s) - 1))
         + (CHOOSE d \in 0..9 : CharAt(Digits, d + 1) = CharAt(s, Len(s)))

DaysInMonth(y, m) ==
    IF m = 2
    THEN (IF y % 4 = 0 /\ (y % 100 # 0 \/ y % 400 = 0) THEN 29 ELSE 28)
    ELSE IF m \in {4, 6, 9, 11} THEN 30 ELSE 31

\* "%Y-%m-%d" over zero-padded fields: the day number, None when strptime raises
ParseDate(s) ==
    IF /\ Len(s) = 10
       /\ CharAt(s, 5) = "-" /\ CharAt(s, 8) = "-"
       /\ IsDigits(SubSeq(s, 1, 4)) /\ IsDigits(SubSeq(s, 6, 7))
       /\ IsDigits(SubSeq(s, 9, 10))
    THEN LET y == ToInt(SubSeq(s, 1, 4))
             m == ToInt(SubSeq(s, 6, 7))
             d == ToInt(SubSeq(s, 9, 10))
         IN  IF y >= 1 /\ m \in 1..12 /\ d >= 1 /\ d <= DaysInMonth(y, m)
             THEN [days |-> DaysFromCivil(y, m, d)]
             ELSE None
    ELSE None

\* "%H:%M:%S" over zero-padded fields: the second of the day, None when
\* strptime or the datetime constructor raises
ParseTime(s) ==
    IF /\ Len(s) = 8
       /\ CharAt(s, 3) = ":" /\ CharAt(s, 6) = ":"
       /\ IsDigits(SubSeq(s, 1, 2)) /\ IsDigits(SubSeq(s, 4, 5))
       /\ IsDigits(SubSeq(s, 7, 8))
    THEN LET h == ToInt(SubSeq(s, 1, 2))
             m == ToInt(SubSeq(s, 4, 5))
             x == ToInt(SubSeq(s, 7, 8))
         IN  IF h <= 23 /\ m <= 59 /\ x <= 59
             THEN [sod |-> 3600 * h + 60 * m + x]
             ELSE None
    ELSE None

\* "%z": the offset in seconds east of UTC of "Z", "+HHMM" or "+HH:MM"
ParseZone(s) ==
    IF s = "Z" THEN [east |-> 0]
    ELSE IF Len(s) \in {5, 6} /\ CharAt(s, 1) \in {"+", "-"}
         THEN LET hh == SubSeq(s, 2, 3)
                  mm == SubSeq(s, Len(s) - 1, Len(s))
              IN  IF /\ IsDigits(hh) /\ IsDigits(mm) /\ ToInt(mm) <= 59
                     /\ (Len(s) = 6 => CharAt(s, 4) = ":")
                  THEN [east |-> (IF CharAt(s, 1) = "-" THEN -1 ELSE 1)
                                 * (3600 * ToInt(hh) + 60 * ToInt(mm))]
                  ELSE None
         ELSE None

\* a date, a separator and a time, east seconds ahead of UTC
DateTimeInstant(s, sep, east) ==
    IF Len(s) = 19 /\ CharAt(s, 11) = sep
    THEN LET d == ParseDate(SubSeq(s, 1, 10))
             t == ParseTime(SubSeq(s, 12, 19))
         IN  IF d = None \/ t = None THEN None
             ELSE LET total == t.sod - east IN
                    [days |-> d.days + (IF total < 0 THEN -1
                                        ELSE IF total >= 86400 THEN 1 ELSE 0),
                     sod |-> total % 86400]
    ELSE None

\* lines 108-123: the instant of a string in the first format that parses it,
\* None when none does. The fields are zero-padded, as the API writes them.
StringInstant(s) ==
    LET n == Len(s)
        f1 == IF /\ n >= 22 /\ n <= 27 /\ CharAt(s, 20) = "." /\ CharAt(s, n) = "Z"
                 /\ IsDigits(SubSeq(s, 21, n - 1))
              THEN DateTimeInstant(SubSeq(s, 1, 19), "T", 0)
              ELSE None
        f2 == IF n = 20 /\ CharAt(s, 20) = "Z"
              THEN DateTimeInstant(SubSeq(s, 1, 19), "T", 0)
              ELSE None
        z == IF n > 19 THEN ParseZone(SubSeq(s, 20, n)) ELSE None
        f3 == IF z # None THEN DateTimeInstant(SubSeq(s, 1, 19), "T", z.east)
              ELSE None
        f4 == DateTimeInstant(s, " ", 0)
        f5 == IF ParseDate(s) # None THEN [days |-> ParseDate(s).days, sod |-> 0]
              ELSE None
    IN  IF f1 # None THEN f1
        ELSE IF f2 # None THEN f2
        ELSE IF f3 # None THEN f3
        ELSE IF f4 # None THEN f4
        ELSE f5

\* lines 87-125: the RFC 2822 text as a Str, or None
normalize_pubdate(value) ==
    IF ~Truthy(value) THEN None
    ELSE IF IsNum(value)
         THEN (IF TimestampInstant(value) = None THEN None
               ELSE Str(format_datetime(TimestampInstant(value))))
    ELSE IF IsStr(value)
         THEN (IF StringInstant(Strip(value.s)) = None THEN None
               ELSE Str(format_datetime(StringInstant(Strip(value.s)))))
    ELSE None

(***************************************************************************)
(* Image lookup (lines 127-158).                                           *)
(***************************************************************************)
\* lines 127-132
is_image_url(s) ==
    LET l == Lower(s) IN
        IF ~StartsWith(l, "http") THEN FALSE
        ELSE \E ext \in {".jpg", ".jpeg", ".png", ".webp"} : Contains(ext, l)

\* line 141
ImageKeys == <<"imageUrl", "image_url", "thumbnailUrl", "thumbnail_url", "src", "url">>

RECURSIVE find_image_url(_)
RECURSIVE FirstImageIn(_)
\* lines 134-158: the first image-like URL of obj, as a Str, or None
find_image_url(obj) ==
    IF IsDict(obj)
    THEN LET hits == {i \in 1..Len(ImageKeys) :
                        /\ IsStr(GetOrNone(obj, ImageKeys[i]))
                        /\ is_image_url(GetOrNone(obj, ImageKeys[i]).s)}
         IN  IF hits # {}
             THEN Get(obj, ImageKeys[CHOOSE i \in hits : \A j \in hits : i <= j])
             ELSE FirstImageIn(Values(obj))
    ELSE IF IsList(obj) THEN FirstImageIn(obj.e)
    ELSE None

\* lines 147-150 and 153-156: the first find among the values, in order
FirstImageIn(vs) ==
    IF vs = <<>> THEN None
    ELSE IF Truthy(find_image_url(Head(vs))) THEN find_image_url(Head(vs))
    ELSE FirstImageIn(Tail(vs))

(***************************************************************************)
(* dedupe (lines 160-172).                                                 *)
(***************************************************************************)
\* it.get(key, "")
ItemGet(it, key) == IF key \in DOMAIN it THEN it[key] ELSE ""

RECURSIVE DedupeFrom(_, _, _)
\* lines 163-171: the loop from its i-th round on, with seen and out as they stand
DedupeFrom(items, i, st) ==
    IF i > Len(items) THEN st.out
    ELSE LET it == items[i]
             link == ItemGet(it, "link")
             title == ItemGet(it, "title")
         IN  IF link = "" \/ title = "" THEN DedupeFrom(items, i + 1, st)
             ELSE IF link \in st.seen THEN DedupeFrom(items, i + 1, st)
             ELSE DedupeFrom(items, i + 1,
                             [seen |-> st.seen \cup {link},
                              out |-> Append(st.out, it)])

RECURSIVE DedupeMarkingFirst(_, _, _)
\* the loop adding a link to seen before it looks at the title
DedupeMarkingFirst(items, i, st) ==
    IF i > Len(items) THEN st.out
    ELSE LET it == items[i]
             link == ItemGet(it, "link")
             title == ItemGet(it, "title")
         IN  IF link = "" \/ link \in st.seen THEN DedupeMarkingFirst(items, i + 1, st)
             ELSE DedupeMarkingFirst(items, i + 1,
                    [seen |-> st.seen \cup {link},
                     out |-> IF title = "" THEN st.out ELSE Append(st.out, it)])

\* dedupe letting an item with an empty title claim its link
dedupe_marking_first(items) == DedupeMarkingFirst(items, 1, [seen |-> {}, out |-> <<>>])

\* lines 160-172
dedupe(items) == DedupeFrom(items, 1, [seen |-> {}, out |-> <<>>])

(***************************************************************************)
(* extract_items_from_json (lines 177-232).                                *)
(***************************************************************************)
title_keys == <<"headline", "title", "name", "label">>

url_keys == <<"url", "canonicalUrl", "canonical_url", "permalink", "link", "path">>

teaser_keys == <<"teaser", "standfirst", "summary", "description", "excerpt">>

time_keys ==
    << "published", "publishedAt", "published_at", "firstPublished",
       "firstPublishedAt", "date", "updatedAt" >>

\* line 192
nested_url_keys == <<"url", "href", "path", "@id">>

\* lines 188-192: the url of an object, looked up one level down when a dict
UrlOf(obj) ==
    LET url == pick_first(obj, url_keys) IN
        IF IsDict(url) THEN pick_first(url, nested_url_keys) ELSE url

\* line 194
HasTitleAndUrl(obj) == Truthy(pick_first(obj, title_keys)) /\ Truthy(UrlOf(obj))

\* line 195
TitleText(obj) == clean(PyStr(pick_first(obj, title_keys)))

\* line 196, which raises when urljoin does
LinkRaises(obj) == abs_url_raises(PyStr(UrlOf(obj)))

\* line 196
LinkText(obj) == abs_url(PyStr(UrlOf(obj)))

\* line 198
PassesFilters(t, link) ==
    looks_like_story(link) /\ Len(t) >= 10 /\ ~looks_like_person_name(t)

\* the description cut to 277 characters and "..." when longer than 280
DescriptionPart_truncating(obj) ==
    LET teaser == pick_first(obj, teaser_keys) IN
        IF IsStr(teaser)
        THEN [description |->
                IF Len(clean(teaser.s)) > 280
                THEN SubSeq(clean(teaser.s), 1, 277) \o "..."
                ELSE clean(teaser.s)]
        ELSE <<>>

\* lines 202-204
DescriptionPart(obj) ==
    LET teaser == pick_first(obj, teaser_keys) IN
        IF IsStr(teaser) THEN [description |-> clean(teaser.s)] ELSE <<>>

\* lines 207-210
PubDatePart(obj) ==
    LET pubdate == normalize_pubdate(pick_first(obj, time_keys)) IN
        IF Truthy(pubdate) THEN [pubDate |-> pubdate.s] ELSE <<>>

\* lines 213-219
ImagePart(obj) ==
    LET found == find_image_url(obj) IN
        IF IsStr(found)
        THEN LET stripped == Strip(found.s)
                 img == IF StartsWith(stripped, "/") THEN SITE_ROOT \o stripped
                        ELSE stripped
             IN  IF StartsWith(img, "http") THEN [image |-> img] ELSE <<>>
        ELSE <<>>

\* lines 199-219: the item of an object whose title t and link passed the filters
ItemOf(obj, t, link) ==
    [title |-> t, link |-> link]
        @@ DescriptionPart(obj) @@ PubDatePart(obj) @@ ImagePart(obj)

\* The walk threads st = [results, raised]: raised is the exception that ended it.
RECURSIVE walk(_, _)
RECURSIVE WalkEach(_, _)
\* the walk not descending into an object it took an item from
walk_stopping_at_item(obj, st) ==
    IF st.raised # "" THEN st
    ELSE IF IsDict(obj)
    THEN LET t == TitleText(obj)
             link == LinkText(obj)
         IN  IF ~HasTitleAndUrl(obj) THEN WalkEach(Values(obj), st)
             ELSE IF LinkRaises(obj) THEN [st EXCEPT !.raised = "ValueError"]
             ELSE IF PassesFilters(t, link)
                  THEN [st EXCEPT !.results = Append(@, ItemOf(obj, t, link))]
                  ELSE WalkEach(Values(obj), st)
    ELSE IF IsList(obj) THEN WalkEach(obj.e, st)
    ELSE st

\* lines 185-229
walk(obj, st) ==
    IF st.raised # "" THEN st
    ELSE IF IsDict(obj)
    THEN LET t == TitleText(obj)
             link == LinkText(obj)
             here ==
                IF ~HasTitleAndUrl(obj) THEN st
                ELSE IF LinkRaises(obj) THEN [st EXCEPT !.raised = "ValueError"]
                ELSE IF PassesFilters(t, link)
                     THEN [st EXCEPT !.results = Append(@, ItemOf(obj, t, link))]
                     ELSE st
         IN  WalkEach(Values(obj), here)
    ELSE IF IsList(obj) THEN WalkEach(obj.e, st)
    ELSE st

\* lines 224-225 and 228-229: walk each value in order
WalkEach(vs, st) ==
    IF vs = <<>> \/ st.raised # "" THEN st
    ELSE WalkEach(Tail(vs), walk(Head(vs), st))

\* lines 177-232: [results, raised]
extract_items_from_json(data) == walk(data, [results |-> <<>>, raised |-> ""])

(***************************************************************************)
(* build_rss (lines 237-265). The document is the element tree that is     *)
(* serialised: an element is <<tag, text>> or <<tag, attributes>>.         *)
(***************************************************************************)
\* line 17, its dash written in ASCII
FEED_TITLE == "The Press - Timaru Herald (Unofficial RSS)"

FEED_DESC ==
    "Unofficial RSS built from thepress.co.nz page API. Headlines + links (and public teaser where available)."

\* lines 246-263: the children of one <item>
ItemElement(it) ==
    << <<"title", it.title>>, <<"link", it.link>>, <<"guid", it.link>> >>
    \o (IF ItemGet(it, "pubDate") # "" THEN << <<"pubDate", it.pubDate>> >> ELSE <<>>)
    \o (IF ItemGet(it, "description") # ""
        THEN << <<"description", it.description>> >> ELSE <<>>)
    \o (IF ItemGet(it, "image") # ""
        THEN << <<"enclosure", [url |-> it.image, type |-> "image/jpeg"]>> >>
        ELSE <<>>)

\* lines 237-265, now being the text of datetime.now(timezone.utc)
build_rss(its, now) ==
    [version |-> "2.0",
     channel |-> << <<"title", FEED_TITLE>>, <<"link", SECTION_LINK>>,
                    <<"description", FEED_DESC>>, <<"lastBuildDate", now>> >>,
     items |-> [i \in 1..Len(its) |-> ItemElement(its[i])]]

(***************************************************************************)
(* main (lines 270-291) as a state machine. pc is the statement main is    *)
(* about to run; "failed" is the run ended by an uncaught exception.       *)
(***************************************************************************)
VARIABLES
    pc,          \* where main stands
    requests,    \* the number of requests sent
    r,           \* the response of requests.get, [status, body]
    data,        \* the parsed JSON
    items,       \* main's items
    xml,         \* the document build_rss returned
    debug_json,  \* the content of debug.json
    feed_file,   \* the content of timaru-herald.xml
    stdout,      \* what was printed
    error,       \* the exception that ended the run
    arg,         \* the argument of a helper called on its own
    ret          \* what that helper returned

vars ==
    << pc, requests, r, data, items, xml, debug_json, feed_file, stdout, error,
       arg, ret >>

\* a file that was never opened for writing, a variable not yet assigned
Absent == [k |-> "absent"]

\* the slice items[:MAX_ITEMS + 1]
Cap_one_more(its) ==
    SubSeq(its, 1, IF Len(its) < MAX_ITEMS + 1 THEN Len(its) ELSE MAX_ITEMS + 1)

\* line 281: items[:MAX_ITEMS]
Cap(its) == SubSeq(its, 1, IF Len(its) < MAX_ITEMS THEN Len(its) ELSE MAX_ITEMS)

\* raise_for_status raising on server errors only
raise_for_status_raises_5xx_only(status) == 500 <= status /\ status < 600

\* line 273: raise_for_status raises HTTPError on a 4xx or 5xx status
raise_for_status_raises(status) == 400 <= status /\ status < 600

\* lines 287-291: the count and the first five titles and links
Summary(its) ==
    [count |-> Len(its),
     top |-> [i \in 1..(IF Len(its) < 5 THEN Len(its) ELSE 5) |->
                <<its[i].title, its[i].link>>]]

(***************************************************************************)
(* The inputs: what the API can answer.                                    *)
(***************************************************************************)
\* the most candidates in one generated listing, besides the listing of 100
MaxStories == 42

\* the most levels of wrapping around a listing
MaxDepth == 2

\* the most items in a list handed to dedupe on its own
MaxDedupe == 3

\* the seconds added to each base instant handed to normalize_pubdate
MaxDelta == 5

RECURSIVE Repeat(_, _)
\* s * n
Repeat(s, n) ==
    IF n = 0 THEN ""
    ELSE IF n = 1 THEN s
    ELSE Repeat(s, n \div 2) \o Repeat(s, n - n \div 2)

\* a text of n characters that whitespace cleaning leaves alone (11 does not divide n)
Text(n) == SubSeq(Repeat("abcdefghij ", n \div 11 + 1), 1, n)

GoodTitle == "Council votes to raise rates again"

OtherTitle == "Timaru port expansion gets green light"

GoodUrl == "/timaru-herald/news/350123456/council-votes"

OtherUrl == "https://www.thepress.co.nz/nz-news/350999/flood-warning"

EvilUrl == "https://evil.example/thepress.co.nz/story-of-the-day"

Titles ==
    { GoodTitle, "Council Votes To Raise Rates Again", "John A Smith", "Short one",
      "  Flood   warning\tissued for Timaru  ", "BREAKING NEWS TODAY",
      "Mayor Opens New bridge", "Mayor opens new Bridge",
      "Alexandria Montgomery Fitzgerald Smithso",
      "Alexandria Montgomery Fitzgerald Smithson" }

Urls ==
    { Str(GoodUrl), Str(OtherUrl), Str(EvilUrl),
      Str("/timaru-herald"), Str("https://www.thepress.co.nz/Timaru-Herald/"),
      Str("/sport"), Str("/author/john-smith"),
      Str("https://www.stuff.co.nz/national/some-story"),
      Str("http://[bad"), Str(" timaru-herald/relative-story-slug "),
      Obj(<< <<"href", Str("/timaru-herald/news/nested-url-story")>> >>),
      Obj(<< <<"id", Num(0, 7)>> >>) }

\* the sibling fields of a candidate: teaser, time, image
Extras ==
    { <<>>,
      << <<"teaser", Str(" A  short teaser. ")>>,
         <<"published", Num(1700000, 0)>>,
         <<"imageUrl", Str("https://cdn.thepress.co.nz/img/a.jpg")>> >>,
      << <<"standfirst", Str(Text(300))>>,
         <<"publishedAt", Num(1700000000, 0)>>,
         <<"media", Arr(<< Obj(<< <<"src", Str("HTTP://cdn.thepress.co.nz/b.PNG")>> >>),
                           Str("https://cdn.thepress.co.nz/c.webp") >>)>> >>,
      << <<"summary", Str(Text(281))>>,
         <<"date", Str("2023-11-14T10:00:00Z")>>,
         <<"thumbnail_url", Str("/img/relative.jpg")>> >>,
      << <<"description", Str(Text(280))>>,
         <<"updatedAt", Str("not-a-date")>>,
         <<"teaser", Num(0, 5)>> >>,
      << <<"excerpt", Str("   ")>>,
         <<"firstPublished", Num(2100000000, 0)>> >> }

\* an object carrying a title, a url and sibling fields, then its children
Candidate(title, url, extra, children) ==
    Obj(<< <<"headline", Str(title)>>, <<"url", url>> >> \o extra \o children)

\* candidates put side by side and one inside the other
Samples ==
    { Candidate(GoodTitle, Str(GoodUrl), <<>>, <<>>),
      Candidate(OtherTitle, Str(OtherUrl), <<>>, <<>>),
      Candidate(OtherTitle, Str(GoodUrl), <<>>, <<>>),
      Candidate("John A Smith", Str("/timaru-herald/news/by-john"), <<>>, <<>>),
      Candidate(GoodTitle, Str("/sport"), <<>>, <<>>),
      Obj(<< <<"name", Str("Navigation")>> >>) }

RECURSIVE Wrap(_, _)
\* v under d levels of {"data": [v]}
Wrap(v, d) == IF d = 0 THEN v ELSE Obj(<< <<"data", Arr(<< Wrap(v, d - 1) >>)>> >>)

\* the i-th story of a generated listing; with dup, two stories share each link
Story(i, dup) ==
    Candidate("Story number " \o ToString(i) \o " of the day",
              Str("/timaru-herald/news/story-"
                  \o ToString(IF dup THEN (i + 1) \div 2 ELSE i)),
              <<>>, <<>>)

Listing(n, dup) == Obj(<< <<"stories", Arr([i \in 1..n |-> Story(i, dup)])>> >>)

Docs ==
    { Obj(<< <<"stories", Arr(<< Candidate(t, u, <<>>, <<>>) >>)>> >>) :
        t \in Titles, u \in Urls }
    \cup { Candidate(GoodTitle, Str(GoodUrl), x, <<>>) : x \in Extras }
    \cup { Wrap(Arr(<<a, b>>), d) : a \in Samples, b \in Samples, d \in 0..MaxDepth }
    \cup { Wrap(Obj(a.f \o << <<"related", Arr(<<b>>)>> >>), d) :
            a \in Samples, b \in Samples, d \in 0..MaxDepth }
    \cup { Listing(n, dup) : n \in (MAX_ITEMS - 1)..MaxStories, dup \in BOOLEAN }
    \cup { Listing(100, FALSE) }
    \cup { Null, Obj(<<>>), Arr(<<>>), Str(GoodTitle), Num(0, 5),
           Arr(<< Arr(<< Arr(<<>>) >>) >>),
           Obj(<< <<"title", Str(GoodTitle)>> >>),
           Obj(<< <<"url", Str(GoodUrl)>> >>),
           Obj(<< <<"title", Str("")>>, <<"url", Str(GoodUrl)>> >>),
           Obj(<< <<"title", Num(1234567, 890)>>, <<"path", Num(0, 42)>> >>) }

\* a body that is not JSON
NotJson == [ok |-> FALSE]

Bodies == {NotJson} \cup {[ok |-> TRUE, doc |-> d] : d \in Docs}

\* a success status with any body, an error status with or without JSON;
\* requests.get follows redirects itself, so no 3xx status is answered here
Responses ==
    { [status |-> 200, body |-> b] : b \in Bodies }
    \cup { [status |-> st, body |-> b] :
            st \in {403, 404, 406, 500, 503},
            b \in {NotJson, [ok |-> TRUE, doc |-> Obj(<<>>)]} }

\* what datetime.now can read
Clock == {"Tue, 14 Nov 2023 22:13:20 +0000", "Wed, 04 Nov 2026 00:00:00 +0000"}

(***************************************************************************)
(* The run of main.                                                        *)
(***************************************************************************)
Init ==
    /\ pc = "start"
    /\ requests = 0
    /\ r = Absent
    /\ data = Absent
    /\ items = <<>>
    /\ xml = Absent
    /\ debug_json = Absent
    /\ feed_file = Absent
    /\ stdout = Absent
    /\ error = ""
    /\ arg = Absent
    /\ ret = Absent

\* line 271
Sleep ==
    /\ pc = "start"
    /\ pc' = "get"
    /\ UNCHANGED << requests, r, data, items, xml, debug_json, feed_file, stdout,
                    error, arg, ret >>

\* line 272: the one request, answered or not
Request ==
    /\ pc = "get"
    /\ requests' = requests + 1
    /\ \/ /\ \E e \in {"Timeout", "ConnectionError"} : error' = e
          /\ pc' = "failed"
          /\ r' = r
       \/ /\ r' \in Responses
          /\ pc' = "raise_for_status"
          /\ error' = error
    /\ UNCHANGED << data, items, xml, debug_json, feed_file, stdout, arg, ret >>

\* line 273
RaiseForStatus ==
    /\ pc = "raise_for_status"
    /\ IF raise_for_status_raises(r.status)
       THEN pc' = "failed" /\ error' = "HTTPError"
       ELSE pc' = "json" /\ error' = error
    /\ UNCHANGED << requests, r, data, items, xml, debug_json, feed_file, stdout,
                    arg, ret >>

\* line 274
ParseJson ==
    /\ pc = "json"
    /\ IF r.body.ok
       THEN pc' = "dump" /\ data' = r.body.doc /\ error' = error
       ELSE pc' = "failed" /\ data' = data /\ error' = "JSONDecodeError"
    /\ UNCHANGED << requests, r, items, xml, debug_json, feed_file, stdout, arg, ret >>

\* lines 277-278
WriteDebug ==
    /\ pc = "dump"
    /\ debug_json' = data
    /\ pc' = "extract"
    /\ UNCHANGED << requests, r, data, items, xml, feed_file, stdout, error, arg, ret >>

\* line 280
Extract ==
    /\ pc = "extract"
    /\ LET got == extract_items_from_json(data) IN
        IF got.raised # ""
        THEN pc' = "failed" /\ error' = got.raised /\ items' = items
        ELSE pc' = "dedupe" /\ error' = error /\ items' = got.results
    /\ UNCHANGED << requests, r, data, xml, debug_json, feed_file, stdout, arg, ret >>

\* line 281
DedupeAndCap ==
    /\ pc = "dedupe"
    /\ items' = Cap(dedupe(items))
    /\ pc' = "build"
    /\ UNCHANGED << requests, r, data, xml, debug_json, feed_file, stdout, error,
                    arg, ret >>

\* line 283
Build ==
    /\ pc = "build"
    /\ \E now \in Clock : xml' = build_rss(items, now)
    /\ pc' = "write"
    /\ UNCHANGED << requests, r, data, items, debug_json, feed_file, stdout, error,
                    arg, ret >>

\* lines 284-285
WriteFeed ==
    /\ pc = "write"
    /\ feed_file' = xml
    /\ pc' = "print"
    /\ UNCHANGED << requests, r, data, items, xml, debug_json, stdout, error, arg, ret >>

\* lines 287-291
PrintSummary ==
    /\ pc = "print"
    /\ stdout' = Summary(items)
    /\ pc' = "done"
    /\ UNCHANGED << requests, r, data, items, xml, debug_json, feed_file, error,
                    arg, ret >>

Next ==
    \/ Sleep
    \/ Request
    \/ RaiseForStatus
    \/ ParseJson
    \/ WriteDebug
    \/ Extract
    \/ DedupeAndCap
    \/ Build
    \/ WriteFeed
    \/ PrintSummary

Spec == Init /\ [][Next]_vars

(***************************************************************************)
(* The JSON tree by positions, to state what the walk must find. A path is *)
(* the sequence of child indices from the root; children are an object's   *)
(* values and an array's elements, in order.                               *)
(***************************************************************************)
Children(v) == IF IsDict(v) THEN Values(v) ELSE IF IsList(v) THEN v.e ELSE <<>>

RECURSIVE PathsOf(_)
PathsOf(v) ==
    {<<>>} \cup UNION { { <<i>> \o p : p \in PathsOf(Children(v)[i]) } :
                        i \in 1..Len(Children(v)) }

RECURSIVE NodeAt(_, _)
NodeAt(v, p) == IF p = <<>> THEN v ELSE NodeAt(Children(v)[Head(p)], Tail(p))

\* p is a proper ancestor of q
Ancestor(p, q) == Len(p) < Len(q) /\ SubSeq(q, 1, Len(p)) = p

\* p comes before q in pre-order: an ancestor first, then left to right
Before(p, q) ==
    \/ Ancestor(p, q)
    \/ \E i \in 1..Len(p) :
        /\ i <= Len(q)
        /\ SubSeq(p, 1, i - 1) = SubSeq(q, 1, i - 1)
        /\ p[i] < q[i]

\* the objects with a truthy title and a truthy url
CandidatePaths(doc) ==
    {p \in PathsOf(doc) : IsDict(NodeAt(doc, p)) /\ HasTitleAndUrl(NodeAt(doc, p))}

\* the candidates that pass the three filters of line 198
PassingPaths(doc) ==
    {p \in CandidatePaths(doc) :
        PassesFilters(TitleText(NodeAt(doc, p)), LinkText(NodeAt(doc, p)))}

\* the place of p among the paths P in pre-order, from 1
Rank(P, p) == 1 + Cardinality({q \in P : Before(q, p)})

\* main got past extract_items_from_json, which returned `items`
Extracted == pc = "dedupe"

\* the feed file was written
Written == pc \in {"print", "done"}

\* the text of the child `tag` of an <item>, "" when it has none
ChildText(el, tag) ==
    IF \E i \in 1..Len(el) : el[i][1] = tag
    THEN el[CHOOSE i \in 1..Len(el) : el[i][1] = tag][2]
    ELSE ""

(***************************************************************************)
(* C2. The feed holds at most 40 items: the first min(40, n) of the n      *)
(* items that remain of the extraction after deduplication, in order.      *)
(***************************************************************************)
C2_FeedIsCappedPrefix ==
    Written =>
        LET d == dedupe(extract_items_from_json(data).results)
            n == Len(feed_file.items)
        IN  /\ n <= 40
            /\ n = (IF Len(d) < 40 THEN Len(d) ELSE 40)
            /\ \A i \in 1..n :
                /\ ChildText(feed_file.items[i], "title") = d[i].title
                /\ ChildText(feed_file.items[i], "link") = d[i].link
            /\ items = SubSeq(d, 1, n)

\* 100 candidates with distinct links were found and 40 were written
C2_Witness ==
    /\ pc = "done"
    /\ Len(feed_file.items) = 40
    /\ Len(dedupe(extract_items_from_json(data).results)) = 100

(***************************************************************************)
(* C3. Every item of the final list has a cleaned title of at least 10     *)
(* characters, an absolute link whose host is the publisher's domain, and  *)
(* a link no other item has.                                               *)
(***************************************************************************)
\* the host of an absolute http(s) URL, lowercased, "" when it is not one
HostOf(link) ==
    IF SchemeOf(link) \in {"http", "https"} THEN Lower(NetlocOf(link)) ELSE ""

\* host is thepress.co.nz or a subdomain of it
OnPublisherDomain(host) ==
    \/ host = "thepress.co.nz"
    \/ /\ Len(host) > Len(".thepress.co.nz")
       /\ SubSeq(host, Len(host) - Len(".thepress.co.nz") + 1, Len(host))
            = ".thepress.co.nz"

C3_FeedItemInvariant ==
    pc \in {"build", "write", "print", "done"} =>
        \A i \in 1..Len(items) :
            /\ items[i].title # ""
            /\ items[i].title = clean(items[i].title)
            /\ Len(items[i].title) >= 10
            /\ OnPublisherDomain(HostOf(items[i].link))
            /\ \A j \in 1..Len(items) : items[j].link = items[i].link => j = i

(***************************************************************************)
(* C4. A failed request (error status, timeout, connection error) or a     *)
(* body that is not JSON ends the run after exactly one request, with      *)
(* neither debug.json nor the feed file written.                           *)
(***************************************************************************)
RequestFailed ==
    \/ error \in {"Timeout", "ConnectionError", "HTTPError", "JSONDecodeError"}
    \/ /\ r # Absent
       /\ (r.status \notin 200..299 \/ ~r.body.ok)

C6_Original ==
    Extracted =>
        \A i \in 1..Len(items) : Len(items[i].link) >= Len(SECTION_LINK) + 12

(***************************************************************************)
(* C6, amended. Only the section page itself is excluded: no extracted     *)
(* item has a link that, lowercased and without trailing slashes, is the   *)
(* section root; the length of a link is not looked at.                    *)
(***************************************************************************)
IsSectionRoot(link) == RStripSlash(Lower(link)) = "https://www.thepress.co.nz/timaru-herald"

C6_SectionRootExcluded ==
    Extracted => \A i \in 1..Len(items) : ~IsSectionRoot(items[i].link)

\* a candidate with a headline-like title linked to the section root was walked
C6_Witness ==
    /\ Extracted
    /\ \E p \in CandidatePaths(data) :
        /\ IsSectionRoot(LinkText(NodeAt(data, p)))
        /\ TitleText(NodeAt(data, p)) = GoodTitle

(***************************************************************************)
(* C7. A title is taken for a byline exactly when, cleaned, it has 8 to 40 *)
(* characters, 2 to 4 words, and at least 75% of its words start with an   *)
(* uppercase letter; no such title is extracted. "John A Smith" is one;    *)
(* "Council Votes To Raise Rates Again" (6 words) is not.                  *)
(***************************************************************************)
WordsOf(t) == Split(clean(t))

BylineShape(t) ==
    /\ Len(clean(t)) \in 8..40
    /\ Len(WordsOf(t)) \in 2..4
    /\ 100 * Cardinality({i \in 1..Len(WordsOf(t)) :
                            CharIn(CharAt(WordsOf(t)[i], 1), UpperLetters)})
         >= 75 * Len(WordsOf(t))

C7_BylineRejected ==
    Extracted =>
        /\ \A p \in CandidatePaths(data) :
            looks_like_person_name(TitleText(NodeAt(data, p)))
                <=> BylineShape(TitleText(NodeAt(data, p)))
        /\ \A i \in 1..Len(items) : ~BylineShape(items[i].title)
        /\ looks_like_person_name("John A Smith")
        /\ ~looks_like_person_name("Council Votes To Raise Rates Again")

\* a candidate titled "John A Smith" with a story link was walked and left out
C7_Witness ==
    /\ Extracted
    /\ \E p \in CandidatePaths(data) :
        /\ TitleText(NodeAt(data, p)) = "John A Smith"
        /\ looks_like_story(LinkText(NodeAt(data, p)))
    /\ \A i \in 1..Len(items) : items[i].title # "John A Smith"

(***************************************************************************)
(* C8, as the spec states it: no description in the feed is longer than    *)
(* 280 characters.                                                         *)
(***************************************************************************)
C8_Original ==
    Written =>
        \A i \in 1..Len(feed_file.items) :
            Len(ChildText(feed_file.items[i], "description")) <= 280

(***************************************************************************)
(* C8, amended. A description is the whole cleaned teaser, whatever its    *)
(* length: the item of the i-th passing object carries clean(teaser) when  *)
(* the teaser is a string, and the feed writes it as it is.                *)
(***************************************************************************)
C8_DescriptionIsWholeTeaser ==
    /\ Extracted =>
        LET P == PassingPaths(data) IN
            \A p \in P :
                LET teaser == pick_first(NodeAt(data, p), teaser_keys)
                    it == items[Rank(P, p)]
                IN  IF IsStr(teaser)
                    THEN it.description = clean(teaser.s)
                    ELSE "description" \notin DOMAIN it
    /\ Written =>
        \A i \in 1..Len(items) :
            ChildText(feed_file.items[i], "description")
                = ItemGet(items[i], "description")

\* a 300-character description was written
C8_Witness ==
    /\ Written
    /\ \E i \in 1..Len(feed_file.items) :
        Len(ChildText(feed_file.items[i], "description")) = 300

(***************************************************************************)
(* C9. On every JSON value the extraction returns without raising, and     *)
(* returns nothing when no object has both a title and a url.              *)
(***************************************************************************)
C9_ExtractIsTotal ==
    /\ error # "ValueError"
    /\ (Extracted /\ CandidatePaths(data) = {}) => items = <<>>

(***************************************************************************)
(* C10. The walk finds the passing objects at every depth, in pre-order:   *)
(* the items are those of the passing objects, an enclosing object's item  *)
(* before those of the objects nested in it, and an object that fails the  *)
(* filters hides none of its descendants.                                  *)
(***************************************************************************)
C10_PreOrderDiscovery ==
    Extracted =>
        LET P == PassingPaths(data) IN
            /\ Len(items) = Cardinality(P)
            /\ \A p \in P :
                /\ items[Rank(P, p)].title = TitleText(NodeAt(data, p))
                /\ items[Rank(P, p)].link = LinkText(NodeAt(data, p))
            /\ \A p \in P, q \in P : Ancestor(p, q) => Rank(P, p) < Rank(P, q)

\* a passing object encloses another one, and both were extracted
C10_Witness ==
    /\ Extracted
    /\ Len(items) = 2
    /\ \E p \in PassingPaths(data), q \in PassingPaths(data) : Ancestor(p, q)

(***************************************************************************)
(* dedupe called on its own, on lists that also hold what the extraction   *)
(* never emits: empty and missing links and titles.                        *)
(***************************************************************************)
DedupeItems ==
    { [link |-> l, title |-> t] : l \in {"", "/a", "/b"}, t \in {"", "First", "Second"} }
    \cup { [title |-> "First"], [link |-> "/a"] }

ItemLists == UNION { [1..n -> DedupeItems] : n \in 0..MaxDedupe }

Idle ==
    /\ requests = 0
    /\ r = Absent
    /\ data = Absent
    /\ items = <<>>
    /\ xml = Absent
    /\ debug_json = Absent
    /\ feed_file = Absent
    /\ stdout = Absent
    /\ error = ""

InitDedupe ==
    /\ pc = "call"
    /\ arg \in ItemLists
    /\ ret = Absent
    /\ Idle

CallDedupe ==
    /\ pc = "call"
    /\ ret' = dedupe(arg)
    /\ pc' = "returned"
    /\ UNCHANGED << requests, r, data, items, xml, debug_json, feed_file, stdout,
                    error, arg >>

SpecDedupe == InitDedupe /\ [][CallDedupe]_vars

(***************************************************************************)
(* C1. dedupe returns the subsequence of its argument that keeps, for each *)
(* non-empty link, the first item with that link and a non-empty title,    *)
(* and drops every item whose link or title is empty.                      *)
(***************************************************************************)
LinkOf(it) == IF "link" \in DOMAIN it THEN it.link ELSE ""

TitleOf(it) == IF "title" \in DOMAIN it THEN it.title ELSE ""

\* the positions dedupe must keep
Kept(its) ==
    {i \in 1..Len(its) :
        /\ LinkOf(its[i]) # ""
        /\ TitleOf(its[i]) # ""
        /\ \A j \in 1..(i - 1) :
            ~(LinkOf(its[j]) = LinkOf(its[i]) /\ TitleOf(its[j]) # "")}

C1_FirstOccurrenceWins ==
    pc = "returned" =>
        /\ Len(ret) = Cardinality(Kept(arg))
        /\ \A i \in Kept(arg) :
            ret[1 + Cardinality({j \in Kept(arg) : j < i})] = arg[i]

\* two items share a link and differ in title, and only the first came back
C1_Witness ==
    /\ pc = "returned"
    /\ Len(arg) = 2
    /\ LinkOf(arg[1]) = "/a" /\ LinkOf(arg[2]) = "/a"
    /\ TitleOf(arg[1]) = "First" /\ TitleOf(arg[2]) = "Second"
    /\ ret = <<arg[1]>>

(***************************************************************************)
(* normalize_pubdate called on an instant in seconds and on the same       *)
(* instant in milliseconds.                                                *)
(***************************************************************************)
\* publication instants from November 2023 on, in seconds
DateSeconds ==
    { b + d : b \in { 1700000000, 1800000000, 1900000000, 1999999995, 2000000000,
                      2100000000, 2147483000 },
              d \in 0..MaxDelta }

\* the integer n as a Num
NumOf(n) == Num(n \div 1000, n % 1000)

\* 1000 * v
Times1000(v) == Num(1000 * v.q + v.r, 0)

InitDate ==
    /\ pc = "call"
    /\ \E sec \in DateSeconds : arg = NumOf(sec)
    /\ ret = Absent
    /\ Idle

NormalizeSeconds ==
    /\ pc = "call"
    /\ ret' = [seconds |-> normalize_pubdate(arg)]
    /\ pc' = "again"
    /\ UNCHANGED << requests, r, data, items, xml, debug_json, feed_file, stdout,
                    error, arg >>

NormalizeMillis ==
    /\ pc = "again"
    /\ ret' = [seconds |-> ret.seconds, millis |-> normalize_pubdate(Times1000(arg))]
    /\ pc' = "returned"
    /\ UNCHANGED << requests, r, data, items, xml, debug_json, feed_file, stdout,
                    error, arg >>

NextDate == NormalizeSeconds \/ NormalizeMillis

SpecDate == InitDate /\ [][NextDate]_vars

(***************************************************************************)
(* C5. An instant given in seconds and the same instant given in           *)
(* milliseconds normalize to the same RFC 2822 timestamp.                  *)
(***************************************************************************)
C5_SecondsAndMillisAgree == pc = "returned" => ret.seconds = ret.millis

====
